---- MODULE Spec2Model ----
(***************************************************************************)
(* Model of server.ts: the Express handlers over the better-sqlite3       *)
(* database "clientflow.db".  The database is the only state the program *)
(* keeps; every handler is one atomic step (the driver is synchronous and *)
(* no handler awaits between statements).                                 *)
(*                                                                         *)
(* db is the database, req and res the request being answered and its     *)
(* response, pre the database as that request found it, served the number *)
(* of requests answered so far.  Finish is the end of a request: req and  *)
(* res are dropped and the server is idle.                                *)
(*                                                                         *)
(* The handlers that only read (/api/health, /api/stats, GET /api/tasks,   *)
(* GET /api/transactions) change nothing and are left out.                *)
(*                                                                         *)
(* Abstractions: DATETIME columns (created_at, last_updated) and the      *)
(* nullable text columns email, phone, company, notes, managed_by,        *)
(* assigned_to, due_date are not represented; amounts are integers.       *)
(* The driver enforces foreign keys (better-sqlite3 is built with         *)
(* SQLITE_DEFAULT_FOREIGN_KEYS=1), so the ON DELETE CASCADE clauses of    *)
(* the schema are in force.                                               *)
(***************************************************************************)
EXTENDS Integers, Sequences, FiniteSets, TLC

VARIABLES db, req, res, pre, served

vars == <<db, req, res, pre, served>>

(* ---------------------------- bounds ---------------------------------- *)

\* number of requests the server answers in a run
MaxRequests == 3
\* amounts in request bodies range over 0..MaxAmount
MaxAmount == 1

(* ---------------------------- values ---------------------------------- *)

\* SQL NULL in a text column; a JSON null / missing text field
NULL == "NULL"

\* a NULL client_id (rowids start at 1)
NoClient == 0

\* The characters of the text values the model uses for service_type.
Chars(s) ==
    CASE s = "" -> <<>>
      [] s = "a" -> <<"a">>
      [] s = "a,b" -> <<"a", ",", "b">>

Amounts == 0..MaxAmount

\* services arrays of request bodies: plain labels (a duplicate included), a
\* label holding a comma, the empty label, and an array holding a null
ServiceLists ==
    {<<>>, <<"a">>, <<"a", "a">>, <<"a,b">>, <<"">>, <<"a", NULL>>}

(* ------------------------- the database ------------------------------- *)

Tables == {"clients", "services", "payments", "tasks", "transactions"}

\* the schema created at startup, all tables empty; seq is sqlite_sequence,
\* the AUTOINCREMENT high-water mark of each table
EmptyDb ==
    [clients |-> {}, services |-> {}, payments |-> {}, tasks |-> {},
     transactions |-> {}, seq |-> [t \in Tables |-> 0]]

Ids(rows) == {r.id : r \in rows}

\* result of a statement: ok = FALSE is a thrown SqliteError / TypeError, db
\* the database as the statement left it
Done(d) == [ok |-> TRUE, db |-> d]
Thrown(d) == [ok |-> FALSE, db |-> d]

\* FOREIGN KEY (client_id) REFERENCES clients(id): NULL or an existing client
FkOk(d, clientId) == clientId = NoClient \/ clientId \in Ids(d.clients)

\* INSERT of a row without id: AUTOINCREMENT assigns seq + 1
AutoInsert(d, table, row) ==
    LET id == d.seq[table] + 1
    IN [d EXCEPT ![table] = @ \cup {[row EXCEPT !.id = id]},
                 !.seq[table] = id]

\* INSERT of a row with an explicit id: PRIMARY KEY must be fresh
ExplicitInsert(d, table, row) ==
    IF row.id \in Ids(d[table]) THEN Thrown(d)
    ELSE Done([d EXCEPT ![table] = @ \cup {row},
                        !.seq[table] = IF row.id > @ THEN row.id ELSE @])

\* DeleteClients with the cascade into tasks left out
DeleteClientsNoTaskCascade(d, ids) ==
    LET keep(rows) == {r \in rows : r.client_id \notin ids}
    IN [d EXCEPT !.clients = {c \in @ : c.id \notin ids},
                 !.services = keep(@),
                 !.payments = keep(@),
                 !.transactions = keep(@)]

\* DELETE FROM clients WHERE id IN ids, with the ON DELETE CASCADE of the
\* four referencing tables
DeleteClients(d, ids) ==
    LET keep(rows) == {r \in rows : r.client_id \notin ids}
    IN [d EXCEPT !.clients = {c \in @ : c.id \notin ids},
                 !.services = keep(@),
                 !.payments = keep(@),
                 !.tasks = keep(@),
                 !.transactions = keep(@)]

\* Transaction without the ROLLBACK: what the statements did stays
TransactionNoRollback(before, r) == r.db

\* db.transaction(fn)(): COMMIT when fn returns, ROLLBACK when it throws
Transaction(before, r) == IF r.ok THEN r.db ELSE before

\* no request is being answered
Idle == req.op = "none"

\* the server takes one more request
Accept ==
    /\ served < MaxRequests
    /\ served' = served + 1
    /\ pre' = db

\* the :id / :clientId of a request: the rowids the table has handed out and
\* one it has not
ParamIds(d, table) == 1..(d.seq[table] + 1)

(* ------------------------ GET /api/clients ---------------------------- *)

RECURSIVE Descending(_)
Descending(S) ==
    IF S = {} THEN <<>>
    ELSE LET m == CHOOSE x \in S : \A y \in S : y <= x
         IN <<m>> \o Descending(S \ {m})

RECURSIVE Ascending(_)
Ascending(S) ==
    IF S = {} THEN <<>>
    ELSE LET m == CHOOSE x \in S : \A y \in S : x <= y
         IN <<m>> \o Ascending(S \ {m})

Row(rows, id) == CHOOSE r \in rows : r.id = id

\* SELECT * FROM table: the rows in rowid order
SelectAll(rows) ==
    LET ids == Ascending(Ids(rows))
    IN [i \in 1..Len(ids) |-> Row(rows, ids[i])]

RECURSIVE Join(_)
Join(texts) ==
    IF Len(texts) = 0 THEN <<>>
    ELSE IF Len(texts) = 1 THEN Chars(texts[1])
    ELSE Chars(texts[1]) \o <<",">> \o Join(Tail(texts))

\* (SELECT GROUP_CONCAT(service_type) FROM services WHERE client_id = c.id):
\* the labels joined by commas; NULL, modelled like the empty text (both are
\* falsy in the handler), when the client has no service row
GroupConcat(d, clientId) ==
    LET rows == SelectAll({s \in d.services : s.client_id = clientId})
    IN Join([i \in 1..Len(rows) |-> rows[i].service_type])

\* String.prototype.split(',')
RECURSIVE Split(_)
Split(text) ==
    IF \A i \in 1..Len(text) : text[i] # ","
    THEN <<text>>
    ELSE LET i == CHOOSE k \in 1..Len(text) :
                      text[k] = "," /\ \A j \in 1..(k - 1) : text[j] # ","
         IN <<SubSeq(text, 1, i - 1)>> \o Split(SubSeq(text, i + 1, Len(text)))

\* c.services ? c.services.split(',') : []
ServicesArray(text) == IF text = <<>> THEN <<>> ELSE Split(text)

\* the rows of clients c LEFT JOIN payments p ON c.id = p.client_id, as
\* pairs <<client id, payment id>> (payment id 0: no payment row joined).
\* ORDER BY c.created_at DESC is rendered as newest rowid first.
JoinedPairs(d) ==
    LET cids == Descending(Ids(d.clients))
        pays(c) == Ascending({p.id : p \in {q \in d.payments : q.client_id = c}})
        line(c) == IF pays(c) = <<>> THEN <<(<<c, 0>>)>>
                   ELSE [i \in 1..Len(pays(c)) |-> <<c, pays(c)[i]>>]
        RECURSIVE all(_)
        all(k) == IF k > Len(cids) THEN <<>> ELSE line(cids[k]) \o all(k + 1)
    IN all(1)

ClientEntry(d, pair) ==
    LET c == Row(d.clients, pair[1])
        pending == Cardinality({t \in d.tasks :
                       t.client_id = c.id /\ t.status = "pending"})
        base == [id |-> c.id, name |-> c.name, status |-> c.status,
                 services |-> ServicesArray(GroupConcat(d, c.id)),
                 pending_tasks |-> pending]
    IN IF pair[2] = 0 THEN base
       ELSE LET p == Row(d.payments, pair[2])
            IN [id |-> c.id, name |-> c.name, status |-> c.status,
                services |-> ServicesArray(GroupConcat(d, c.id)),
                pending_tasks |-> pending,
                total_amount |-> p.total_amount,
                advance_paid |-> p.advance_paid,
                remaining_balance |-> p.remaining_balance]

\* the JSON array GET /api/clients answers with
ClientList(d) ==
    LET pairs == JoinedPairs(d)
    IN [i \in 1..Len(pairs) |-> ClientEntry(d, pairs[i])]

GetClients ==
    /\ Idle
    /\ Accept
    /\ req' = [op |-> "GET /api/clients"]
    /\ res' = [status |-> 200, body |-> ClientList(db)]
    /\ UNCHANGED db

(* ------------------------ POST /api/clients --------------------------- *)

\* serviceStmt.run(clientId, service): service_type TEXT NOT NULL and the
\* foreign key on client_id
InsertService(d, clientId, service) ==
    IF service = NULL \/ ~FkOk(d, clientId) THEN Thrown(d)
    ELSE Done(AutoInsert(d, "services",
                 [id |-> 0, client_id |-> clientId,
                  service_type |-> service, price |-> 0]))

\* for (const service of services) serviceStmt.run(clientId, service)
RECURSIVE InsertServices(_, _, _)
InsertServices(r, clientId, services) ==
    IF ~r.ok \/ services = <<>> THEN r
    ELSE InsertServices(InsertService(r.db, clientId, Head(services)),
                        clientId, Tail(services))

\* remaining = total_amount - advance_paid
Remaining(total_amount, advance_paid) == total_amount - advance_paid

\* the body of the insertClient transaction
insertClient(d, body) ==
    LET r1 == IF body.name = NULL THEN Thrown(d)
              ELSE Done(AutoInsert(d, "clients",
                          [id |-> 0, name |-> body.name, status |-> "active"]))
        clientId == r1.db.seq["clients"]
        r2 == IF ~r1.ok THEN r1
              ELSE IF "services" \notin DOMAIN body THEN Thrown(r1.db)
              ELSE InsertServices(r1, clientId, body.services)
        r3 == IF ~r2.ok THEN r2
              ELSE Done(AutoInsert(r2.db, "payments",
                          [id |-> 0, client_id |-> clientId,
                           total_amount |-> body.total_amount,
                           advance_paid |-> body.advance_paid,
                           remaining_balance |->
                               Remaining(body.total_amount, body.advance_paid)]))
    IN r3

\* request bodies: every services array, every pair of amounts, a body
\* without a name and a body without a services array
CreateBodies ==
    {[name |-> "n1", services |-> l, total_amount |-> 1, advance_paid |-> 0] :
        l \in ServiceLists}
    \cup {[name |-> "n1", services |-> <<"a">>, total_amount |-> t,
           advance_paid |-> a] : t \in Amounts, a \in Amounts}
    \cup {[name |-> NULL, services |-> <<"a">>, total_amount |-> 1,
           advance_paid |-> 0],
          [name |-> "n1", total_amount |-> 1, advance_paid |-> 0]}

PostClients ==
    \E body \in CreateBodies :
        /\ Idle
        /\ Accept
        /\ LET r == insertClient(db, body)
           IN /\ db' = Transaction(db, r)
              /\ req' = [op |-> "POST /api/clients", body |-> body]
              /\ res' = IF r.ok THEN [status |-> 201, id |-> r.db.seq["clients"]]
                        ELSE [status |-> 500]

(* ---------------------- DELETE /api/clients/:id ----------------------- *)

DeleteClient ==
    \E id \in ParamIds(db, "clients") :
        /\ Idle
        /\ Accept
        /\ db' = DeleteClients(db, {id})
        /\ req' = [op |-> "DELETE /api/clients/:id", id |-> id]
        /\ res' = [status |-> 204]

(* ---------------------- PATCH /api/clients/:id ------------------------ *)

\* UPDATE clients SET name = ? ... WHERE id = ?: name TEXT NOT NULL is
\* checked on the row that matches, if there is one
UpdateClientRow(d, clientId, name) ==
    IF clientId \notin Ids(d.clients) THEN Done(d)
    ELSE IF name = NULL THEN Thrown(d)
    ELSE Done([d EXCEPT !.clients =
                 {IF c.id = clientId THEN [c EXCEPT !.name = name] ELSE c : c \in @}])

\* DELETE FROM services WHERE client_id = ?
DeleteServices(d, clientId) ==
    [d EXCEPT !.services = {s \in @ : s.client_id # clientId}]

\* updateClient that inserts the array without deleting the old rows
updateClientMerge(d, clientId, body) ==
    LET r1 == UpdateClientRow(d, clientId, body.name)
    IN IF ~r1.ok \/ "services" \notin DOMAIN body THEN r1
       ELSE InsertServices(r1, clientId, body.services)

\* the body of the updateClient transaction; if (services) is true of every
\* array, the empty one included, and false of a missing field
updateClient(d, clientId, body) ==
    LET r1 == UpdateClientRow(d, clientId, body.name)
    IN IF ~r1.ok \/ "services" \notin DOMAIN body THEN r1
       ELSE InsertServices(Done(DeleteServices(r1.db, clientId)),
                           clientId, body.services)

\* request bodies: every services array, a body without one and a body
\* without a name
UpdateBodies ==
    {[name |-> "n2", services |-> l] : l \in ServiceLists}
    \cup {[name |-> "n2"], [name |-> NULL, services |-> <<"a">>]}

PatchClients ==
    \E id \in ParamIds(db, "clients"), body \in UpdateBodies :
        /\ Idle
        /\ Accept
        /\ LET r == updateClient(db, id, body)
           IN /\ db' = Transaction(db, r)
              /\ req' = [op |-> "PATCH /api/clients/:id", id |-> id, body |-> body]
              /\ res' = IF r.ok THEN [status |-> 200] ELSE [status |-> 500]

(* -------------------- PATCH /api/payments/:clientId ------------------- *)

\* amount_added as the JSON value it is: a number [num |-> n] or a
\* one-number array [arr |-> n]; a body may also lack the field
AmountsAdded == {[num |-> n] : n \in -1..MaxAmount} \cup {[arr |-> 1]}

IsNumber(v) == "num" \in DOMAIN v

\* Positive with >= in place of >
PositiveOrZero(body) ==
    /\ "amount_added" \in DOMAIN body
    /\ IF IsNumber(body.amount_added) THEN body.amount_added.num >= 0
       ELSE body.amount_added.arr >= 0

\* amount_added && amount_added > 0: an array is truthy and [n] > 0
\* compares its only element
Positive(body) ==
    /\ "amount_added" \in DOMAIN body
    /\ IF IsNumber(body.amount_added) THEN body.amount_added.num > 0
       ELSE body.amount_added.arr > 0

\* db.prepare("SELECT ... FROM payments WHERE client_id = ?").get(clientId):
\* the first matching row of the table scan
PaymentsOf(d, clientId) == {p \in d.payments : p.client_id = clientId}

FirstPayment(d, clientId) ==
    CHOOSE p \in PaymentsOf(d, clientId) :
        \A q \in PaymentsOf(d, clientId) : p.id <= q.id

\* INSERT INTO transactions (client_id, amount): only numbers bind
InsertTransaction(d, clientId, amount) ==
    IF ~IsNumber(amount) \/ ~FkOk(d, clientId) THEN Thrown(d)
    ELSE Done(AutoInsert(d, "transactions",
                 [id |-> 0, client_id |-> clientId,
                  amount |-> amount.num, type |-> "payment"]))

\* the body of the updatePayment transaction
updatePayment(d, clientId, payment, body) ==
    LET remaining == Remaining(payment.total_amount, body.advance_paid)
        d1 == [d EXCEPT !.payments =
                 {IF p.client_id = clientId
                  THEN [p EXCEPT !.advance_paid = body.advance_paid,
                                 !.remaining_balance = remaining]
                  ELSE p : p \in @}]
    IN IF Positive(body) THEN InsertTransaction(d1, clientId, body.amount_added)
       ELSE Done(d1)

PaymentBodies ==
    {[advance_paid |-> a, amount_added |-> v] : a \in Amounts, v \in AmountsAdded}
    \cup {[advance_paid |-> a] : a \in Amounts}

\* PatchPayments without the 404 return: reading total_amount of a missing
\* row throws inside the transaction
PatchPaymentsNoLookup ==
    \E clientId \in ParamIds(db, "clients"), body \in PaymentBodies :
        /\ Idle
        /\ Accept
        /\ req' = [op |-> "PATCH /api/payments/:clientId",
                   id |-> clientId, body |-> body]
        /\ IF PaymentsOf(db, clientId) = {}
           THEN /\ res' = [status |-> 500]
                /\ UNCHANGED db
           ELSE LET r == updatePayment(db, clientId,
                                       FirstPayment(db, clientId), body)
                IN /\ db' = Transaction(db, r)
                   /\ res' = IF r.ok THEN [status |-> 200] ELSE [status |-> 500]

PatchPayments ==
    \E clientId \in ParamIds(db, "clients"), body \in PaymentBodies :
        /\ Idle
        /\ Accept
        /\ req' = [op |-> "PATCH /api/payments/:clientId",
                   id |-> clientId, body |-> body]
        /\ IF PaymentsOf(db, clientId) = {}
           THEN /\ res' = [status |-> 404]
                /\ UNCHANGED db
           ELSE LET r == updatePayment(db, clientId,
                                       FirstPayment(db, clientId), body)
                IN /\ db' = Transaction(db, r)
                   /\ res' = IF r.ok THEN [status |-> 200] ELSE [status |-> 500]

(* ----------------------------- tasks ---------------------------------- *)

\* INSERT INTO tasks (client_id, title, ...): title TEXT NOT NULL and the
\* foreign key on client_id; status defaults to 'pending'
InsertTask(d, body) ==
    IF body.title = NULL \/ ~FkOk(d, body.client_id) THEN Thrown(d)
    ELSE Done(AutoInsert(d, "tasks",
                 [id |-> 0, client_id |-> body.client_id,
                  title |-> body.title, status |-> "pending"]))

TaskBodies ==
    {[client_id |-> c, title |-> "t"] :
        c \in ParamIds(db, "clients") \cup {NoClient}}
    \cup {[client_id |-> NoClient, title |-> NULL]}

PostTasks ==
    \E body \in TaskBodies :
        /\ Idle
        /\ Accept
        /\ LET r == InsertTask(db, body)
           IN /\ db' = Transaction(db, r)
              /\ req' = [op |-> "POST /api/tasks", body |-> body]
              /\ res' = IF r.ok THEN [status |-> 201, id |-> r.db.seq["tasks"]]
                        ELSE [status |-> 500]

\* UPDATE tasks SET status = ? WHERE id = ?
PatchTasks ==
    \E id \in ParamIds(db, "tasks"), status \in {"done"} :
        /\ Idle
        /\ Accept
        /\ db' = [db EXCEPT !.tasks =
                    {IF t.id = id THEN [t EXCEPT !.status = status] ELSE t : t \in @}]
        /\ req' = [op |-> "PATCH /api/tasks/:id", id |-> id,
                   body |-> [status |-> status]]
        /\ res' = [status |-> 200]

\* DELETE FROM tasks WHERE id = ?
DeleteTasks ==
    \E id \in ParamIds(db, "tasks") :
        /\ Idle
        /\ Accept
        /\ db' = [db EXCEPT !.tasks = {t \in @ : t.id # id}]
        /\ req' = [op |-> "DELETE /api/tasks/:id", id |-> id]
        /\ res' = [status |-> 204]

(* ------------------------- backup / restore --------------------------- *)

\* the snapshot GET /api/backup answers with (timestamp left out)
Snapshot(d) ==
    [clients |-> SelectAll(d.clients),
     services |-> SelectAll(d.services),
     payments |-> SelectAll(d.payments),
     tasks |-> SelectAll(d.tasks),
     version |-> "1.0"]

GetBackup ==
    /\ Idle
    /\ Accept
    /\ req' = [op |-> "GET /api/backup"]
    /\ res' = [status |-> 200, body |-> Snapshot(db)]
    /\ UNCHANGED db

\* the constraints a restored row must meet besides a fresh PRIMARY KEY
RowOk(d, table, row) ==
    CASE table = "clients" -> row.name # NULL
      [] table = "services" -> row.service_type # NULL /\ FkOk(d, row.client_id)
      [] table = "payments" -> FkOk(d, row.client_id)
      [] table = "tasks" -> row.title # NULL /\ FkOk(d, row.client_id)

\* for (const x of list) stmt.run(x.id, ...)
RECURSIVE InsertRows(_, _, _)
InsertRows(r, table, rows) ==
    IF ~r.ok \/ rows = <<>> THEN r
    ELSE LET row == Head(rows)
             next == IF RowOk(r.db, table, row)
                     THEN ExplicitInsert(r.db, table, row)
                     ELSE Thrown(r.db)
         IN InsertRows(next, table, Tail(rows))

\* one of the four loops of restore; iterating a missing list throws
RestoreTable(r, table, body) ==
    IF ~r.ok THEN r
    ELSE IF table \notin DOMAIN body THEN Thrown(r.db)
    ELSE InsertRows(r, table, body[table])

\* DELETE FROM tasks; payments; services; clients (the last one cascades)
ClearData(d) ==
    DeleteClients([d EXCEPT !.tasks = {}, !.payments = {}, !.services = {}],
                  Ids(d.clients))

\* restore without the payments loop
restoreNoPayments(d, body) ==
    LET r0 == Done(ClearData(d))
        r1 == RestoreTable(r0, "clients", body)
        r2 == RestoreTable(r1, "services", body)
        r4 == RestoreTable(r2, "tasks", body)
    IN r4

\* the body of the restore transaction
restore(d, body) ==
    LET r0 == Done(ClearData(d))
        r1 == RestoreTable(r0, "clients", body)
        r2 == RestoreTable(r1, "services", body)
        r3 == RestoreTable(r2, "payments", body)
        r4 == RestoreTable(r3, "tasks", body)
    IN r4

Client1 == [id |-> 1, name |-> "n1", status |-> "active"]

\* snapshots a caller may post besides the one it has just been given: an
\* empty one; one client holding two payment rows; one whose payment row
\* has a remaining_balance that is not total - advance; one without its
\* tasks list; one whose service row names a client that is not in it
StoredSnapshots ==
    {[clients |-> <<>>, services |-> <<>>, payments |-> <<>>, tasks |-> <<>>],
     [clients |-> <<Client1>>, services |-> <<>>,
      payments |-> <<[id |-> 1, client_id |-> 1, total_amount |-> 1,
                      advance_paid |-> 0, remaining_balance |-> 1],
                     [id |-> 2, client_id |-> 1, total_amount |-> 0,
                      advance_paid |-> 0, remaining_balance |-> 0]>>,
      tasks |-> <<>>],
     [clients |-> <<Client1>>,
      services |-> <<[id |-> 1, client_id |-> 1, service_type |-> "a",
                      price |-> 1]>>,
      payments |-> <<[id |-> 1, client_id |-> 1, total_amount |-> 1,
                      advance_paid |-> 1, remaining_balance |-> 1]>>,
      tasks |-> <<>>],
     [clients |-> <<Client1>>, services |-> <<>>, payments |-> <<>>],
     [clients |-> <<Client1>>,
      services |-> <<[id |-> 1, client_id |-> 2, service_type |-> "a",
                      price |-> 0]>>,
      payments |-> <<>>, tasks |-> <<>>]}

\* what the caller posts: right after GET /api/backup the body it has just
\* been given, otherwise a stored snapshot
RestoreBodies ==
    IF req.op = "GET /api/backup" THEN {res.body}
    ELSE IF Idle THEN StoredSnapshots
    ELSE {}

PostRestore ==
    \E body \in RestoreBodies :
        LET r == restore(db, body)
        IN /\ Accept
           /\ db' = Transaction(db, r)
           /\ req' = [op |-> "POST /api/restore", body |-> body]
           /\ res' = IF r.ok THEN [status |-> 200] ELSE [status |-> 500]

(* --------------------------- the program ------------------------------ *)

\* the response is sent and the handler returns
Finish ==
    /\ ~Idle
    /\ req' = [op |-> "none"]
    /\ res' = [status |-> 0]
    /\ pre' = db
    /\ UNCHANGED <<db, served>>

Init ==
    /\ db = EmptyDb
    /\ req = [op |-> "none"]
    /\ res = [status |-> 0]
    /\ pre = EmptyDb
    /\ served = 0

Next ==
    \/ GetClients
    \/ PostClients
    \/ DeleteClient
    \/ PatchClients
    \/ PatchPayments
    \/ PostTasks
    \/ PatchTasks
    \/ DeleteTasks
    \/ GetBackup
    \/ PostRestore
    \/ Finish

Spec == Init /\ [][Next]_vars

(* ---------------------------- properties ------------------------------ *)

\* the rows of one client
ServicesOf(d, c) == {x \in d.services : x.client_id = c}
TasksOf(d, c) == {x \in d.tasks : x.client_id = c}

\* a client's service labels in rowid order
Labels(d, c) ==
    LET rows == SelectAll(ServicesOf(d, c))
    IN [i \in 1..Len(rows) |-> rows[i].service_type]

\* the entries of GET /api/clients that are about client c
EntriesOf(d, c) ==
    {i \in 1..Len(ClientList(d)) : ClientList(d)[i].id = c}

Created == req.op = "POST /api/clients" /\ res.status = 201

\* C1: a successful POST /api/clients with N services, total T and advance A
\* leaves the new client with one payment row (T, A, T - A), N service rows
\* (the array's entries, duplicates kept) and an entry of GET /api/clients
\* whose services array has length N.
C1_CreateCounts ==
    Created =>
        LET c == res.id
            body == req.body
        IN /\ Cardinality(PaymentsOf(db, c)) = 1
           /\ \A p \in PaymentsOf(db, c) :
                  /\ p.total_amount = body.total_amount
                  /\ p.advance_paid = body.advance_paid
                  /\ p.remaining_balance = body.total_amount - body.advance_paid
           /\ Labels(db, c) = body.services
           /\ EntriesOf(db, c) # {}
           /\ \A i \in EntriesOf(db, c) :
                  Len(ClientList(db)[i].services) = Len(body.services)

DeletedExisting ==
    req.op = "DELETE /api/clients/:id" /\ req.id \in Ids(pre.clients)

\* C2: after DELETE /api/clients/C of an existing client C, GET /api/clients
\* has no entry for C and no service, payment or task row names C.
C2_DeleteCascades ==
    DeletedExisting =>
        /\ EntriesOf(db, req.id) = {}
        /\ ServicesOf(db, req.id) = {}
        /\ PaymentsOf(db, req.id) = {}
        /\ TasksOf(db, req.id) = {}

\* the deleted client had a service, a payment and a task row
C2_Witness ==
    /\ DeletedExisting
    /\ res.status = 204
    /\ ServicesOf(pre, req.id) # {}
    /\ PaymentsOf(pre, req.id) # {}
    /\ TasksOf(pre, req.id) # {}

Updated ==
    /\ req.op = "PATCH /api/clients/:id"
    /\ res.status = 200
    /\ req.id \in Ids(pre.clients)

\* C3: after a successful PATCH /api/clients/:id of an existing client, a
\* supplied services array (the empty one included) is exactly the client's
\* service rows and no prior row is left; without a services array the
\* client's service rows are as before.
C3_ServicesReplaced ==
    Updated =>
        IF "services" \in DOMAIN req.body
        THEN /\ Labels(db, req.id) = req.body.services
             /\ Ids(ServicesOf(db, req.id)) \cap Ids(ServicesOf(pre, req.id)) = {}
        ELSE ServicesOf(db, req.id) = ServicesOf(pre, req.id)

\* rows were there before and a non-empty array replaced them
C3_Witness ==
    /\ Updated
    /\ "services" \in DOMAIN req.body
    /\ req.body.services # <<>>
    /\ ServicesOf(pre, req.id) # {}
    /\ ServicesOf(db, req.id) # {}

PaidOne ==
    /\ req.op = "PATCH /api/payments/:clientId"
    /\ res.status = 200
    /\ Cardinality(PaymentsOf(pre, req.id)) = 1

\* amount_added is supplied and greater than 0
AddedAmount ==
    /\ "amount_added" \in DOMAIN req.body
    /\ IsNumber(req.body.amount_added)
    /\ req.body.amount_added.num > 0

RoundTrip == req.op = "POST /api/restore" /\ req.body = Snapshot(pre)

C6_RestoreKeepsLedger ==
    req.op = "POST /api/restore" => db.transactions = pre.transactions

NoPaymentRow ==
    /\ req.op = "PATCH /api/payments/:clientId"
    /\ PaymentsOf(pre, req.id) = {}

\* C7: PATCH /api/payments/:clientId for a client id without a payment row
\* answers 404 and changes nothing.
C7_NotFound ==
    NoPaymentRow => res.status = 404 /\ db = pre

\* the request carried a positive amount_added
C7_Witness ==
    /\ NoPaymentRow
    /\ res.status = 404
    /\ AddedAmount

\* the transaction of the request being answered threw
Threw ==
    CASE req.op = "POST /api/clients" -> ~insertClient(pre, req.body).ok
      [] req.op = "PATCH /api/clients/:id" ->
             ~updateClient(pre, req.id, req.body).ok
      [] req.op = "PATCH /api/payments/:clientId" ->
             /\ PaymentsOf(pre, req.id) # {}
             /\ ~updatePayment(pre, req.id, FirstPayment(pre, req.id),
                               req.body).ok
      [] req.op = "POST /api/restore" -> ~restore(pre, req.body).ok
      [] OTHER -> FALSE

\* C8: when a statement or step of the transaction of client create, client
\* update, payment update or restore fails, the request is answered as a
\* failure and every table is as it was before the request.
C8_AllOrNothing ==
    Threw => res.status = 500 /\ db = pre

\* a restore that failed after it had cleared a database holding rows
C8_Witness ==
    /\ req.op = "POST /api/restore"
    /\ Threw
    /\ pre.clients # {}
    /\ pre.payments # {}

\* C9: every payment row has remaining_balance = total_amount - advance_paid.
C9_BalanceInvariant ==
    \A p \in db.payments :
        p.remaining_balance = p.total_amount - p.advance_paid

\* C10: no request removes or changes a row of the transactions table.
C10_LedgerAppendOnly ==
    pre.transactions \subseteq db.transactions

====
